---- MODULE Spec2Model ----
(***************************************************************************)
(* A model of frt.h: frt::Task (the unit's lifecycle: start, stop and the  *)
(* task's own entryPoint, its notification count, msleep), frt::Queue,     *)
(* frt::Semaphore, frt::Mutex, the remainder-tracking timed calls, the     *)
(* prepare/act/finalize interrupt protocol, and a producer/consumer        *)
(* scenario built from them, over the FreeRTOS kernel services they call.  *)
(***************************************************************************)
EXTENDS Integers, Sequences, FiniteSets, TLC

(***************************************************************************)
(* Bounds of the model.                                                    *)
(***************************************************************************)
\* kernel tasks the heap has room for (xTaskCreate fails beyond it)
MaxTasks == 2
\* the kernel's configMAX_PRIORITIES: valid priorities are 0 .. this - 1
configMAX_PRIORITIES == 2

TaskIds == 1 .. MaxTasks
Priorities == 0 .. (configMAX_PRIORITIES - 1)
\* the priority arguments start() is called with; the last is out of range
PriorityArgs == 0 .. configMAX_PRIORITIES
nullptr == 0

\* Queue<T, ITEMS>: the capacity the Channel is built with
ITEMS == 2
\* the history keeps the first MaxLog values pushed and the first popped
MaxLog == 2
\* the largest portTICK_PERIOD_MS (milliseconds per tick) tried
MaxTickPeriod == 2
\* the largest msecs argument of a timed call
MaxMsecs == 2
\* the largest value of UBaseType_t, static_cast<UBaseType_t>(-1) (a narrow
\* UBaseType_t: the model's count type has few values)
UBaseType_MAX == 2
\* notifications given to the unit's task and not yet taken
MaxNotify == 2

\* the task contexts that contend for one Mutex
MaxLockers == 3
\* the value the data guarded by the Mutex is counted up to
MaxGuarded == 2

\* the largest unsigned int (a narrow unsigned int: the msecs arguments of
\* the remainder-tracking calls and their sums have few values)
UINT_MAX == 7
\* successive calls with the same period that the drift history follows
MaxCalls == 3
\* the end-to-end scenario: pops of the consumer, items of its Channel,
\* milliseconds of its timed pop
ScPops == 10
ScCapacity == 4
ScMsecs == 100

\* the values of T that are pushed
Items == {0, 1}
MsecsArgs == 0 .. MaxMsecs
\* the task contexts that use the Channel (an interrupt handler is a third)
QTasks == {1, 2}

VARIABLES
    staticAlloc,  \* build: configSUPPORT_STATIC_ALLOCATION > 0
    running,      \* Task::running
    do_stop,      \* Task::do_stop
    handle,       \* Task::handle (nullptr or a kernel task's id)
    ktask,        \* the kernel's tasks running entryPoint(this), by id
    halted,       \* a task returned from entryPoint and the port trapped it
    callerPrio,   \* priority of the context that calls start() and stop()
    cpc,          \* where that context is inside start() / stop()
    cret,         \* start(): the value xTaskCreateStatic returned
    stopEntry,    \* history: was the unit idle when stop() was last called
    stopRet,      \* history: what the last stop() returned
    stopJoined,   \* history: stop() returned true and start() was not called since
    overlapped    \* history: start() was called while a task of the unit existed

taskVars == <<staticAlloc, running, do_stop, handle, ktask, halted, callerPrio,
              cpc, cret, stopEntry, stopRet, stopJoined, overlapped>>

VARIABLES
    portTICK_PERIOD_MS,  \* kernel configuration: milliseconds per tick
    capacity,     \* the kernel queue's length, fixed by xQueueCreate(ITEMS, ..)
    queue,        \* the kernel queue's items, oldest first
    ctx,          \* per task context: the queue call it is blocked in and
                  \* the ticks it has left
    obs,          \* history: the last queue call of task 1 and its result
    higher_priority_task_woken_from_push,  \* Queue field
    higher_priority_task_woken_from_pop,   \* Queue field
    isr,          \* the interrupt handler: its open batch and what it last did
    pushedLog,    \* history: values accepted by successful pushes, in order
    poppedLog     \* history: values returned by successful pops, in order

queueVars == <<portTICK_PERIOD_MS, capacity, queue, ctx, obs,
               higher_priority_task_woken_from_push,
               higher_priority_task_woken_from_pop, isr, pushedLog, poppedLog>>

VARIABLES
    task_woken,     \* Task::higher_priority_task_woken
    notifyValue,    \* the unit task's notification count (kernel)
    notifyWaiting,  \* the unit's task is blocked in Task::wait()
    sem_woken,      \* Semaphore::higher_priority_task_woken
    semBinary,      \* Semaphore(binary)
    semCount,       \* the kernel semaphore's count
    semWaiting      \* a task is blocked in Semaphore::wait()

signalVars == <<task_woken, notifyValue, notifyWaiting, sem_woken, semBinary,
                semCount, semWaiting>>

VARIABLES
    notifyOwed,   \* history: posts to the unit minus waits that returned true
    notifyTimed,  \* the blocked Task::wait is a timed one
    semRun,       \* history: the current run of posts and the takes after it
    semTimed      \* the blocked Semaphore::wait is a timed one

notifyHist == <<notifyOwed, notifyTimed>>
semHist == <<semRun, semTimed>>

VARIABLES
    mutexHolder,  \* the kernel mutex: the task that holds it, 0 when free
    lockPc,       \* per contending task: where it is around its critical section
    guarded,      \* the data the Mutex guards
    lockLocal     \* per contending task: the value it read inside the section

mutexVars == <<mutexHolder, lockPc, guarded, lockLocal>>

VARIABLES
    remainder,    \* the caller's unsigned int passed by reference
    ser,          \* history: the series of equal timed-out calls in progress
    lastTimed     \* history: the last msleep / remainder-tracking call

timedVars == <<remainder, ser, lastTimed>>

VARIABLES
    scProd,       \* scenario: the unit's task (entryPoint and its run())
    scCons,       \* scenario: the consumer task
    scChan,       \* scenario: the Channel's items
    scSignal,     \* scenario: the Signal's count
    scPopped,     \* scenario history: the values the consumer popped
    scTimedOut,   \* scenario history: a pop of the consumer timed out
    scSkipped     \* scenario history: the consumer left out a post

scenarioVars == <<scProd, scCons, scChan, scSignal, scPopped, scTimedOut, scSkipped>>

restVars == <<timedVars, scenarioVars>>

auxVars == <<notifyHist, semHist, mutexVars, restVars>>

vars == <<taskVars, queueVars, signalVars, auxVars>>

\* A kernel task of the unit: where it is in entryPoint (pc), its handle_copy
\* (hc), its priority, and two history fields: ran, run() was called; late,
\* the calls of run() begun since a stop() set do_stop while the task was in
\* its loop (-1: no stop() did).
NoTask == [pc |-> "none", hc |-> nullptr, prio |-> 0, ran |-> FALSE, late |-> 0 - 1]

Live(i) == ktask[i].pc # "none"
LiveTasks == {i \in TaskIds : Live(i)}

\* A task inside the user's run() may be blocked there (wait, msleep, pop ...).
MayBeBlocked(i) == ktask[i].pc \in {"in_run", "returned"}

(***************************************************************************)
(* The kernel's priority scheduling: a context executes only while no      *)
(* ready context of strictly higher priority exists.  Equal priorities     *)
(* share the processor (time slicing), in any order.  The caller is ready  *)
(* while it is inside start() or stop(); taskYIELD() does not block it.    *)
(***************************************************************************)
CallerMayRun ==
    /\ ~halted
    /\ \A i \in LiveTasks : ktask[i].prio <= callerPrio \/ MayBeBlocked(i)

TaskMayRun(i) ==
    /\ ~halted
    /\ Live(i)
    /\ cpc = "idle" \/ ktask[i].prio >= callerPrio
    /\ \A j \in LiveTasks \ {i} : ktask[j].prio <= ktask[i].prio \/ MayBeBlocked(j)

TaskInit ==
    /\ staticAlloc \in BOOLEAN
    /\ running = FALSE
    /\ do_stop = FALSE
    /\ handle = nullptr
    /\ ktask = [i \in TaskIds |-> NoTask]
    /\ halted = FALSE
    /\ callerPrio \in Priorities
    /\ cpc = "idle"
    /\ cret = nullptr
    /\ stopEntry = "none"
    /\ stopRet = "none"
    /\ stopJoined = FALSE
    /\ overlapped = FALSE

nonTaskVars == <<queueVars, signalVars, auxVars>>

(***************************************************************************)
(* Kernel services used by Task.                                           *)
(***************************************************************************)
NewTask(prio) == [pc |-> "entry", hc |-> nullptr, prio |-> prio, ran |-> FALSE,
                  late |-> 0 - 1]

FreeIds == {i \in TaskIds : ~Live(i)}

\* vTaskDelete(h) called by task i: a null handle means the calling task.
DeleteTarget(i, h) == IF h = nullptr THEN i ELSE h

(***************************************************************************)
(* Task::start                                                             *)
(***************************************************************************)
\* lines 74-76
ClampPriority(priority) ==
    IF priority >= configMAX_PRIORITIES THEN configMAX_PRIORITIES - 1 ELSE priority

\* lines 90-98: xTaskCreate stores the new handle through &handle before the
\* task is made ready, or fails (heap exhausted) and leaves handle alone.
StartDynamic(priority) ==
    /\ ~staticAlloc
    /\ cpc = "idle"
    /\ CallerMayRun
    /\ IF FreeIds # {}
       THEN \E i \in FreeIds :
               /\ ktask' = [ktask EXCEPT ![i] = NewTask(ClampPriority(priority))]
               /\ handle' = i
       ELSE UNCHANGED <<ktask, handle>>
    /\ stopJoined' = FALSE
    /\ overlapped' = (overlapped \/ LiveTasks # {})
    /\ UNCHANGED <<staticAlloc, running, do_stop, halted, callerPrio, cpc, cret,
                   stopEntry, stopRet>>
    /\ UNCHANGED nonTaskVars

\* lines 79-87: xTaskCreateStatic builds the task in this->state and
\* this->stack, so its handle is always the same address (id 1); a task
\* already there is initialised anew and starts over at entryPoint.  The new
\* task is ready from here on; the value is not yet assigned to handle.
StartCreateStatic(priority) ==
    /\ staticAlloc
    /\ cpc = "idle"
    /\ CallerMayRun
    /\ ktask' = [ktask EXCEPT ![1] = NewTask(ClampPriority(priority))]
    /\ cret' = 1
    /\ cpc' = "start_assign"
    /\ stopJoined' = FALSE
    /\ overlapped' = (overlapped \/ LiveTasks # {})
    /\ UNCHANGED <<staticAlloc, running, do_stop, handle, halted, callerPrio,
                   stopEntry, stopRet>>
    /\ UNCHANGED nonTaskVars

\* lines 79, 88: handle = <returned value>; return handle;
StartAssign ==
    /\ cpc = "start_assign"
    /\ CallerMayRun
    /\ handle' = cret
    /\ cpc' = "idle"
    /\ UNCHANGED <<staticAlloc, running, do_stop, ktask, halted, callerPrio, cret,
                   stopEntry, stopRet, stopJoined, overlapped>>
    /\ UNCHANGED nonTaskVars

(***************************************************************************)
(* Task::stop (also what ~Task runs)                                       *)
(***************************************************************************)
\* lines 104-106
StopCheck ==
    /\ cpc = "idle"
    /\ CallerMayRun
    /\ stopEntry' = IF LiveTasks = {} THEN "idle" ELSE "active"
    /\ IF handle = nullptr
       THEN /\ stopRet' = "false"
            /\ cpc' = "idle"
       ELSE /\ stopRet' = "pending"
            /\ cpc' = "stop_set"
    /\ UNCHANGED <<staticAlloc, running, do_stop, handle, ktask, halted, callerPrio,
                   cret, stopJoined, overlapped>>
    /\ UNCHANGED nonTaskVars

\* history: a stop() has set do_stop while task i is in its loop
StopSeen(i) ==
    IF ktask[i].pc \in {"loop", "in_run"} /\ ktask[i].late < 0
    THEN [ktask[i] EXCEPT !.late = 0]
    ELSE ktask[i]

\* mutant: stop() also clears running itself
StopSetClearsRunning ==
    /\ cpc = "stop_set"
    /\ CallerMayRun
    /\ do_stop' = TRUE
    /\ running' = FALSE
    /\ cpc' = "stop_poll"
    /\ ktask' = [i \in TaskIds |-> StopSeen(i)]
    /\ UNCHANGED <<staticAlloc, handle, halted, callerPrio, cret,
                   stopEntry, stopRet, stopJoined, overlapped>>
    /\ UNCHANGED nonTaskVars

\* line 108
StopSet ==
    /\ cpc = "stop_set"
    /\ CallerMayRun
    /\ do_stop' = TRUE
    /\ cpc' = "stop_poll"
    /\ ktask' = [i \in TaskIds |-> StopSeen(i)]
    /\ UNCHANGED <<staticAlloc, running, handle, halted, callerPrio, cret,
                   stopEntry, stopRet, stopJoined, overlapped>>
    /\ UNCHANGED nonTaskVars

\* lines 109-111, 149-152: running is still set; taskYIELD() and test again
StopYield ==
    /\ cpc = "stop_poll"
    /\ CallerMayRun
    /\ running
    /\ UNCHANGED taskVars
    /\ UNCHANGED nonTaskVars

\* lines 109, 113
StopReturn ==
    /\ cpc = "stop_poll"
    /\ CallerMayRun
    /\ ~running
    /\ cpc' = "idle"
    /\ stopRet' = "true"
    /\ stopJoined' = TRUE
    /\ UNCHANGED <<staticAlloc, running, do_stop, handle, ktask, halted, callerPrio,
                   cret, stopEntry, overlapped>>
    /\ UNCHANGED nonTaskVars

(***************************************************************************)
(* Task::entryPoint, one statement at a time, run by kernel task i         *)
(***************************************************************************)
Goto(i, l) == ktask' = [ktask EXCEPT ![i].pc = l]

TaskFrame == <<staticAlloc, halted, callerPrio, cpc, cret, stopEntry, stopRet,
               stopJoined, overlapped>>

\* line 209
SetRunning(i) ==
    /\ TaskMayRun(i)
    /\ ktask[i].pc = "entry"
    /\ running' = TRUE
    /\ Goto(i, "loop")
    /\ UNCHANGED <<do_stop, handle>>
    /\ UNCHANGED TaskFrame
    /\ UNCHANGED nonTaskVars

\* line 210: the call of run()
RunBegin(i) ==
    /\ TaskMayRun(i)
    /\ ktask[i].pc = "loop"
    /\ ktask' = [ktask EXCEPT ![i].pc = "in_run",
                              ![i].ran = TRUE,
                              ![i].late = IF @ < 0 \/ @ >= 2 THEN @ ELSE @ + 1]
    /\ UNCHANGED <<running, do_stop, handle>>
    /\ UNCHANGED TaskFrame
    /\ UNCHANGED nonTaskVars

\* line 210: run() returns r; do_stop is read only when r is true
LoopTest(r) == r /\ ~do_stop

RunEnd(i, r) ==
    /\ TaskMayRun(i)
    /\ ktask[i].pc = "in_run"
    /\ Goto(i, IF LoopTest(r) THEN "loop" ELSE "clear_stop")
    /\ UNCHANGED <<running, do_stop, handle>>
    /\ UNCHANGED TaskFrame
    /\ UNCHANGED nonTaskVars

\* line 211
ClearStop(i) ==
    /\ TaskMayRun(i)
    /\ ktask[i].pc = "clear_stop"
    /\ do_stop' = FALSE
    /\ Goto(i, "clear_running")
    /\ UNCHANGED <<running, handle>>
    /\ UNCHANGED TaskFrame
    /\ UNCHANGED nonTaskVars

\* line 212
ClearRunning(i) ==
    /\ TaskMayRun(i)
    /\ ktask[i].pc = "clear_running"
    /\ running' = FALSE
    /\ Goto(i, "copy_handle")
    /\ UNCHANGED <<do_stop, handle>>
    /\ UNCHANGED TaskFrame
    /\ UNCHANGED nonTaskVars

\* line 214
CopyHandle(i) ==
    /\ TaskMayRun(i)
    /\ ktask[i].pc = "copy_handle"
    /\ ktask' = [ktask EXCEPT ![i].hc = handle, ![i].pc = "null_handle"]
    /\ UNCHANGED <<running, do_stop, handle>>
    /\ UNCHANGED TaskFrame
    /\ UNCHANGED nonTaskVars

\* line 215
NullHandle(i) ==
    /\ TaskMayRun(i)
    /\ ktask[i].pc = "null_handle"
    /\ handle' = nullptr
    /\ Goto(i, "delete")
    /\ UNCHANGED <<running, do_stop>>
    /\ UNCHANGED TaskFrame
    /\ UNCHANGED nonTaskVars

\* line 217: vTaskDelete(handle_copy) removes the calling task when the copy
\* is null or its own handle, and does not return.
DeleteSelf(i) ==
    /\ TaskMayRun(i)
    /\ ktask[i].pc = "delete"
    /\ DeleteTarget(i, ktask[i].hc) = i
    /\ ktask' = [ktask EXCEPT ![i] = NoTask]
    /\ UNCHANGED <<running, do_stop, handle>>
    /\ UNCHANGED TaskFrame
    /\ UNCHANGED nonTaskVars

\* lines 217-218: the copy is another task's handle; that task (if it still
\* exists) is removed and this one returns from entryPoint, which a task
\* function must not do: the port either traps it with interrupts off (the
\* system halts) or the context is lost (it never runs entryPoint again).
DeleteOther(i, trap) ==
    /\ TaskMayRun(i)
    /\ ktask[i].pc = "delete"
    /\ DeleteTarget(i, ktask[i].hc) # i
    /\ ktask' = [j \in TaskIds |->
                    IF j = i THEN [ktask[i] EXCEPT !.pc = "returned"]
                    ELSE IF j = ktask[i].hc THEN NoTask
                    ELSE ktask[j]]
    /\ halted' = trap
    /\ UNCHANGED <<running, do_stop, handle>>
    /\ UNCHANGED <<staticAlloc, callerPrio, cpc, cret, stopEntry, stopRet,
                   stopJoined, overlapped>>
    /\ UNCHANGED nonTaskVars

TaskStep(i) ==
    \/ SetRunning(i)
    \/ RunBegin(i)
    \/ \E r \in BOOLEAN : RunEnd(i, r)
    \/ ClearStop(i)
    \/ ClearRunning(i)
    \/ CopyHandle(i)
    \/ NullHandle(i)
    \/ DeleteSelf(i)
    \/ \E trap \in BOOLEAN : DeleteOther(i, trap)

CallerStep ==
    \/ \E p \in PriorityArgs : StartDynamic(p)
    \/ \E p \in PriorityArgs : StartCreateStatic(p)
    \/ StartAssign
    \/ StopCheck
    \/ StopSet
    \/ StopYield
    \/ StopReturn

(***************************************************************************)
(* Queue<T, ITEMS> over the kernel's queue.  Every kernel call is atomic   *)
(* (the kernel runs it in a critical section); a call that cannot proceed  *)
(* leaves its task blocked until the queue changes or its ticks run out.   *)
(* An interrupt handler runs to its end before any task runs again.        *)
(***************************************************************************)
IdleCtx == [op |-> "idle", item |-> 0, timed |-> FALSE, ticks |-> 0]

NoCall == [last |-> "none", ret |-> "none", waited |-> FALSE, sawOpp |-> FALSE,
           endBlocked |-> FALSE]

NoHandler == [in |-> FALSE, open |-> "none", woke |-> FALSE,
              ev |-> "none", cond |-> FALSE, out |-> 0]

QueueInit ==
    /\ portTICK_PERIOD_MS \in 1 .. MaxTickPeriod
    /\ capacity = ITEMS
    /\ queue = <<>>
    /\ ctx = [t \in QTasks |-> IdleCtx]
    /\ obs = NoCall
    \* the constructor (lines 234-243) does not initialise the two flags
    /\ higher_priority_task_woken_from_push \in {0, 1}
    /\ higher_priority_task_woken_from_pop \in {0, 1}
    /\ isr = NoHandler
    /\ pushedLog = <<>>
    /\ poppedLog = <<>>

\* what the kernel queue does with an item sent to it, and which it hands out
\* mutant: the item is put in front of the older ones
EnqueueInFront(q, item) == <<item>> \o q

Enqueue(q, item) == Append(q, item)
Front(q) == Head(q)
Dequeue(q) == Tail(q)

\* mutant: one item more than the capacity is let in
QueueFullOffByOne == Len(queue) > capacity

QueueFull == Len(queue) >= capacity
QueueEmpty == Len(queue) = 0

\* history: the first MaxLog values accepted, and the first MaxLog handed out
Logged(log, item) == IF Len(log) < MaxLog THEN Append(log, item) ELSE log

\* history of the calls of task 1 (every task runs the same code): what its
\* last call was, whether it found the Channel full (push) or empty (pop),
\* whether a call of the opposite kind took effect during its wait, and
\* whether the Channel was still full (empty) when a timed-out wait ended
Observe(t, rec) == IF t = 1 THEN rec ELSE obs

ObsOpposite(kind) ==
    IF ctx[1].op # "idle" /\ ctx[1].op # kind
    THEN [obs EXCEPT !.sawOpp = TRUE]
    ELSE obs

QueueFlags == <<higher_priority_task_woken_from_push,
                higher_priority_task_woken_from_pop, isr>>

TaskContextRuns == ~isr.in

\* msecs / portTICK_PERIOD_MS (lines 260, 303)
ToTicks(msecs) == msecs \div portTICK_PERIOD_MS

\* xQueueSend(handle, &item, ticks); timed = FALSE stands for portMAX_DELAY
xQueueSend(t, item, timed, ticks) ==
    /\ TaskContextRuns
    /\ ctx[t].op = "idle"
    /\ IF ~QueueFull
       THEN /\ queue' = Enqueue(queue, item)
            /\ pushedLog' = Logged(pushedLog, item)
            /\ obs' = IF t = 1 THEN [NoCall EXCEPT !.last = "push", !.ret = "true"]
                      ELSE ObsOpposite("push")
            /\ UNCHANGED ctx
       ELSE IF timed /\ ticks = 0
       THEN /\ obs' = Observe(t, [NoCall EXCEPT !.last = "push", !.ret = "false",
                                                !.waited = TRUE, !.endBlocked = TRUE])
            /\ UNCHANGED <<queue, pushedLog, ctx>>
       ELSE /\ ctx' = [ctx EXCEPT ![t] = [op |-> "push", item |-> item,
                                          timed |-> timed, ticks |-> ticks]]
            /\ obs' = Observe(t, [NoCall EXCEPT !.last = "push", !.ret = "pending",
                                                !.waited = TRUE])
            /\ UNCHANGED <<queue, pushedLog>>
    /\ UNCHANGED <<portTICK_PERIOD_MS, capacity, poppedLog>>
    /\ UNCHANGED QueueFlags
    /\ UNCHANGED <<taskVars, signalVars, auxVars>>

\* lines 253-256
Push(t, item) == xQueueSend(t, item, FALSE, 0)

\* lines 258-263
PushTimed(t, item, msecs) == xQueueSend(t, item, TRUE, ToTicks(msecs))

\* a task blocked in xQueueSend finds room: the call returns pdTRUE
PushResume(t) ==
    /\ TaskContextRuns
    /\ ctx[t].op = "push"
    /\ ~QueueFull
    /\ queue' = Enqueue(queue, ctx[t].item)
    /\ pushedLog' = Logged(pushedLog, ctx[t].item)
    /\ ctx' = [ctx EXCEPT ![t] = IdleCtx]
    /\ obs' = IF t = 1 THEN [obs EXCEPT !.ret = "true"] ELSE ObsOpposite("push")
    /\ UNCHANGED <<portTICK_PERIOD_MS, capacity, poppedLog>>
    /\ UNCHANGED QueueFlags
    /\ UNCHANGED <<taskVars, signalVars, auxVars>>

\* whether a wait in xQueueSend whose ticks have run out gives up
\* mutant: the wait gives up when its ticks have run out, room or not
PushGivesUpRegardless == TRUE

PushGivesUp == QueueFull

\* its ticks have run out and the queue is (again) full: errQUEUE_FULL
PushTimeout(t) ==
    /\ TaskContextRuns
    /\ ctx[t].op = "push"
    /\ ctx[t].timed
    /\ ctx[t].ticks = 0
    /\ PushGivesUp
    /\ ctx' = [ctx EXCEPT ![t] = IdleCtx]
    /\ obs' = Observe(t, [obs EXCEPT !.ret = "false", !.endBlocked = QueueFull])
    /\ UNCHANGED <<portTICK_PERIOD_MS, capacity, queue, pushedLog, poppedLog>>
    /\ UNCHANGED QueueFlags
    /\ UNCHANGED <<taskVars, signalVars, auxVars>>

\* xQueueReceive(handle, &item, ticks)
xQueueReceive(t, timed, ticks) ==
    /\ TaskContextRuns
    /\ ctx[t].op = "idle"
    /\ IF ~QueueEmpty
       THEN /\ queue' = Dequeue(queue)
            /\ poppedLog' = Logged(poppedLog, Front(queue))
            /\ obs' = IF t = 1 THEN [NoCall EXCEPT !.last = "pop", !.ret = "true"]
                      ELSE ObsOpposite("pop")
            /\ UNCHANGED ctx
       ELSE IF timed /\ ticks = 0
       THEN /\ obs' = Observe(t, [NoCall EXCEPT !.last = "pop", !.ret = "false",
                                                !.waited = TRUE, !.endBlocked = TRUE])
            /\ UNCHANGED <<queue, poppedLog, ctx>>
       ELSE /\ ctx' = [ctx EXCEPT ![t] = [op |-> "pop", item |-> 0,
                                          timed |-> timed, ticks |-> ticks]]
            /\ obs' = Observe(t, [NoCall EXCEPT !.last = "pop", !.ret = "pending",
                                                !.waited = TRUE])
            /\ UNCHANGED <<queue, poppedLog>>
    /\ UNCHANGED <<portTICK_PERIOD_MS, capacity, pushedLog>>
    /\ UNCHANGED QueueFlags
    /\ UNCHANGED <<taskVars, signalVars, auxVars>>

\* lines 296-299
Pop(t) == xQueueReceive(t, FALSE, 0)

\* lines 301-306
PopTimed(t, msecs) == xQueueReceive(t, TRUE, ToTicks(msecs))

PopResume(t) ==
    /\ TaskContextRuns
    /\ ctx[t].op = "pop"
    /\ ~QueueEmpty
    /\ queue' = Dequeue(queue)
    /\ poppedLog' = Logged(poppedLog, Front(queue))
    /\ ctx' = [ctx EXCEPT ![t] = IdleCtx]
    /\ obs' = IF t = 1 THEN [obs EXCEPT !.ret = "true"] ELSE ObsOpposite("pop")
    /\ UNCHANGED <<portTICK_PERIOD_MS, capacity, pushedLog>>
    /\ UNCHANGED QueueFlags
    /\ UNCHANGED <<taskVars, signalVars, auxVars>>

\* whether a wait in xQueueReceive whose ticks have run out gives up
PopGivesUp == QueueEmpty

PopTimeout(t) ==
    /\ TaskContextRuns
    /\ ctx[t].op = "pop"
    /\ ctx[t].timed
    /\ ctx[t].ticks = 0
    /\ PopGivesUp
    /\ ctx' = [ctx EXCEPT ![t] = IdleCtx]
    /\ obs' = Observe(t, [obs EXCEPT !.ret = "false", !.endBlocked = QueueEmpty])
    /\ UNCHANGED <<portTICK_PERIOD_MS, capacity, queue, pushedLog, poppedLog>>
    /\ UNCHANGED QueueFlags
    /\ UNCHANGED <<taskVars, signalVars, auxVars>>

\* the kernel's tick: every timed wait has one tick less left
Tick ==
    /\ TaskContextRuns
    /\ \E t \in QTasks : ctx[t].op # "idle" /\ ctx[t].timed /\ ctx[t].ticks > 0
    /\ ctx' = [t \in QTasks |->
                  IF ctx[t].op # "idle" /\ ctx[t].timed /\ ctx[t].ticks > 0
                  THEN [ctx[t] EXCEPT !.ticks = @ - 1]
                  ELSE ctx[t]]
    /\ UNCHANGED <<portTICK_PERIOD_MS, capacity, queue, obs, pushedLog, poppedLog>>
    /\ UNCHANGED QueueFlags
    /\ UNCHANGED <<taskVars, signalVars, auxVars>>

(***************************************************************************)
(* The interrupt protocol: prepare, any number of calls, finalize, inside  *)
(* an interrupt handler.  isr.woke is history: a call of the open batch    *)
(* reported a woken task.  isr.ev, cond and out are history of what the    *)
(* handler did last: a call (cond: it found the Channel full or empty,     *)
(* out: 1 when it returned true) or a finalize (cond: the batch had        *)
(* reported a woken task, out: the context switches it requested).         *)
(***************************************************************************)
\* preparePushFromInterrupt / preparePopFromInterrupt (lines 281, 324): the
\* value the flag is given
\* mutant: prepare leaves the flag as the last batch left it
PreparedKeepsFlag(flag) == flag

Prepared(flag) == 0

\* the kernel's ...FromISR call: it sets *pxHigherPriorityTaskWoken to pdTRUE
\* when it readied a task that outranks the interrupted one, and leaves it
\* alone otherwise
Reported(flag, woken) == IF woken THEN 1 ELSE flag

\* finalize...FromInterrupt (lines 291-293, 334-336): the number of calls of
\* detail::yieldFromIsr it makes
FinalizeYields(flag) == IF flag # 0 THEN 1 ELSE 0

OpenBatch(o) == [NoHandler EXCEPT !.in = TRUE, !.open = o]

CallInBatch(woken, blocked, result) ==
    [isr EXCEPT !.woke = @ \/ woken, !.ev = "call", !.cond = blocked,
                !.out = IF result THEN 1 ELSE 0]

CloseBatch(yields) ==
    [NoHandler EXCEPT !.in = TRUE, !.ev = "finalize", !.cond = isr.woke,
                      !.out = yields]

WaitingTo(kind) == \E u \in QTasks : ctx[u].op = kind

\* an interrupt is taken: its handler runs
IsrEnter ==
    /\ ~isr.in
    /\ isr' = [NoHandler EXCEPT !.in = TRUE]
    /\ UNCHANGED <<portTICK_PERIOD_MS, capacity, queue, ctx, obs,
                   higher_priority_task_woken_from_push,
                   higher_priority_task_woken_from_pop, pushedLog, poppedLog>>
    /\ UNCHANGED <<taskVars, signalVars, auxVars>>

\* the handler returns, every batch finalized
IsrExit ==
    /\ isr.in
    /\ isr.open = "none"
    /\ isr' = NoHandler
    /\ UNCHANGED <<portTICK_PERIOD_MS, capacity, queue, ctx, obs,
                   higher_priority_task_woken_from_push,
                   higher_priority_task_woken_from_pop, pushedLog, poppedLog>>
    /\ UNCHANGED <<taskVars, signalVars, auxVars>>

\* lines 279-282
PreparePushFromInterrupt ==
    /\ isr.in
    /\ isr.open = "none"
    /\ higher_priority_task_woken_from_push' = Prepared(higher_priority_task_woken_from_push)
    /\ isr' = OpenBatch("push")
    /\ UNCHANGED <<portTICK_PERIOD_MS, capacity, queue, ctx, obs,
                   higher_priority_task_woken_from_pop, pushedLog, poppedLog>>
    /\ UNCHANGED <<taskVars, signalVars, auxVars>>

\* lines 284-287: xQueueSendFromISR never blocks; outranks says whether a
\* task it readies has a higher priority than the interrupted task
PushFromInterrupt(item, outranks) ==
    /\ isr.open = "push"
    /\ IF ~QueueFull
       THEN /\ queue' = Enqueue(queue, item)
            /\ pushedLog' = Logged(pushedLog, item)
            /\ obs' = ObsOpposite("push")
            /\ higher_priority_task_woken_from_push' =
                   Reported(higher_priority_task_woken_from_push,
                            WaitingTo("pop") /\ outranks)
            /\ isr' = CallInBatch(WaitingTo("pop") /\ outranks, FALSE, TRUE)
       ELSE /\ isr' = CallInBatch(FALSE, TRUE, FALSE)
            /\ UNCHANGED <<queue, pushedLog, obs, higher_priority_task_woken_from_push>>
    /\ UNCHANGED <<portTICK_PERIOD_MS, capacity, ctx, higher_priority_task_woken_from_pop,
                   poppedLog>>
    /\ UNCHANGED <<taskVars, signalVars, auxVars>>

\* lines 289-294
FinalizePushFromInterrupt ==
    /\ isr.open = "push"
    /\ isr' = CloseBatch(FinalizeYields(higher_priority_task_woken_from_push))
    /\ UNCHANGED <<portTICK_PERIOD_MS, capacity, queue, ctx, obs,
                   higher_priority_task_woken_from_push,
                   higher_priority_task_woken_from_pop, pushedLog, poppedLog>>
    /\ UNCHANGED <<taskVars, signalVars, auxVars>>

\* lines 322-325
PreparePopFromInterrupt ==
    /\ isr.in
    /\ isr.open = "none"
    /\ higher_priority_task_woken_from_pop' = Prepared(higher_priority_task_woken_from_pop)
    /\ isr' = OpenBatch("pop")
    /\ UNCHANGED <<portTICK_PERIOD_MS, capacity, queue, ctx, obs,
                   higher_priority_task_woken_from_push, pushedLog, poppedLog>>
    /\ UNCHANGED <<taskVars, signalVars, auxVars>>

\* lines 327-330: xQueueReceiveFromISR never blocks
PopFromInterrupt(outranks) ==
    /\ isr.open = "pop"
    /\ IF ~QueueEmpty
       THEN /\ queue' = Dequeue(queue)
            /\ poppedLog' = Logged(poppedLog, Front(queue))
            /\ obs' = ObsOpposite("pop")
            /\ higher_priority_task_woken_from_pop' =
                   Reported(higher_priority_task_woken_from_pop,
                            WaitingTo("push") /\ outranks)
            /\ isr' = CallInBatch(WaitingTo("push") /\ outranks, FALSE, TRUE)
       ELSE /\ isr' = CallInBatch(FALSE, TRUE, FALSE)
            /\ UNCHANGED <<queue, poppedLog, obs, higher_priority_task_woken_from_pop>>
    /\ UNCHANGED <<portTICK_PERIOD_MS, capacity, ctx, higher_priority_task_woken_from_push,
                   pushedLog>>
    /\ UNCHANGED <<taskVars, signalVars, auxVars>>

\* lines 332-337
FinalizePopFromInterrupt ==
    /\ isr.open = "pop"
    /\ isr' = CloseBatch(FinalizeYields(higher_priority_task_woken_from_pop))
    /\ UNCHANGED <<portTICK_PERIOD_MS, capacity, queue, ctx, obs,
                   higher_priority_task_woken_from_push,
                   higher_priority_task_woken_from_pop, pushedLog, poppedLog>>
    /\ UNCHANGED <<taskVars, signalVars, auxVars>>

(***************************************************************************)
(* Task's notification and Semaphore, as far as the interrupt protocol     *)
(* needs them: the unit is started and its task is inside run().           *)
(***************************************************************************)
NoRun == [base |-> 0, posts |-> 0]

SignalInit ==
    \* neither constructor (lines 57-62, 391-412) initialises its flag
    /\ task_woken \in {0, 1}
    /\ notifyValue = 0
    /\ notifyWaiting = FALSE
    /\ sem_woken \in {0, 1}
    /\ semBinary \in BOOLEAN
    /\ semCount = 0
    /\ semWaiting = FALSE

SignalAtRest ==
    /\ task_woken = 0
    /\ notifyValue = 0
    /\ notifyWaiting = FALSE
    /\ sem_woken = 0
    /\ semBinary = FALSE
    /\ semCount = 0
    /\ semWaiting = FALSE

SyncAtRest ==
    /\ notifyOwed = 0
    /\ notifyTimed = FALSE
    /\ semRun = NoRun
    /\ semTimed = FALSE

\* lines 397-399: the count a semaphore can hold
SemMax == IF semBinary THEN 1 ELSE UBaseType_MAX

QueueFrame == <<portTICK_PERIOD_MS, capacity, queue, ctx, obs,
                higher_priority_task_woken_from_push,
                higher_priority_task_woken_from_pop, pushedLog, poppedLog>>

\* what a call on the unit's notification leaves alone
NotifyFrame == <<sem_woken, semBinary, semCount, semWaiting, semHist, mutexVars,
                 restVars, taskVars, QueueFrame>>

\* what a call on the Semaphore leaves alone
SemFrame == <<task_woken, notifyValue, notifyWaiting, notifyHist, mutexVars,
              restVars, taskVars, QueueFrame>>

\* mutant: the take clears the count (ulTaskNotifyTake(pdTRUE, ..))
NotifyCleared(value) == 0

\* ulTaskNotifyTake(pdFALSE, ..): the count the take leaves when it finds
\* value notifications pending
NotifyTaken(value) == value - 1

\* lines 126-129: xTaskNotifyGive(handle)
TaskPost ==
    /\ TaskContextRuns
    /\ notifyValue < MaxNotify
    /\ notifyValue' = notifyValue + 1
    /\ notifyOwed' = notifyOwed + 1
    /\ UNCHANGED <<task_woken, notifyWaiting, notifyTimed, isr>>
    /\ UNCHANGED NotifyFrame

\* lines 178-181: ulTaskNotifyTake(pdFALSE, portMAX_DELAY) by the unit's task
TaskWait ==
    /\ TaskContextRuns
    /\ ~notifyWaiting
    /\ IF notifyValue > 0
       THEN /\ notifyValue' = NotifyTaken(notifyValue)
            /\ notifyOwed' = notifyOwed - 1
            /\ UNCHANGED notifyWaiting
       ELSE /\ notifyWaiting' = TRUE
            /\ UNCHANGED <<notifyValue, notifyOwed>>
    /\ notifyTimed' = FALSE
    /\ UNCHANGED <<task_woken, isr>>
    /\ UNCHANGED NotifyFrame

\* lines 183-188: ulTaskNotifyTake(pdFALSE, ticks), its result taken as bool
TaskWaitTimed ==
    /\ TaskContextRuns
    /\ ~notifyWaiting
    /\ IF notifyValue > 0
       THEN /\ notifyValue' = NotifyTaken(notifyValue)
            /\ notifyOwed' = notifyOwed - 1
            /\ UNCHANGED <<notifyWaiting, notifyTimed>>
       ELSE /\ notifyWaiting' = TRUE
            /\ notifyTimed' = TRUE
            /\ UNCHANGED <<notifyValue, notifyOwed>>
    /\ UNCHANGED <<task_woken, isr>>
    /\ UNCHANGED NotifyFrame

\* the blocked ulTaskNotifyTake finds a notification and returns
TaskWaitResume ==
    /\ TaskContextRuns
    /\ notifyWaiting
    /\ notifyValue > 0
    /\ notifyValue' = NotifyTaken(notifyValue)
    /\ notifyOwed' = notifyOwed - 1
    /\ notifyWaiting' = FALSE
    /\ notifyTimed' = FALSE
    /\ UNCHANGED <<task_woken, isr>>
    /\ UNCHANGED NotifyFrame

\* lines 183-188: the ticks of the timed take ran out with no notification
TaskWaitTimeout ==
    /\ TaskContextRuns
    /\ notifyWaiting
    /\ notifyTimed
    /\ notifyValue = 0
    /\ notifyWaiting' = FALSE
    /\ notifyTimed' = FALSE
    /\ UNCHANGED <<task_woken, notifyValue, notifyOwed, isr>>
    /\ UNCHANGED NotifyFrame

\* lines 131-134
TaskPreparePostFromInterrupt ==
    /\ isr.in
    /\ isr.open = "none"
    /\ task_woken' = Prepared(task_woken)
    /\ isr' = OpenBatch("task")
    /\ UNCHANGED <<notifyValue, notifyWaiting, notifyHist>>
    /\ UNCHANGED NotifyFrame

\* lines 136-139: vTaskNotifyGiveFromISR
TaskPostFromInterrupt(outranks) ==
    /\ isr.open = "task"
    /\ notifyValue < MaxNotify
    /\ notifyValue' = notifyValue + 1
    /\ notifyOwed' = notifyOwed + 1
    /\ task_woken' = Reported(task_woken, notifyWaiting /\ outranks)
    /\ isr' = CallInBatch(notifyWaiting /\ outranks, FALSE, TRUE)
    /\ UNCHANGED <<notifyWaiting, notifyTimed>>
    /\ UNCHANGED NotifyFrame

\* lines 141-146
TaskFinalizePostFromInterrupt ==
    /\ isr.open = "task"
    /\ isr' = CloseBatch(FinalizeYields(task_woken))
    /\ UNCHANGED <<task_woken, notifyValue, notifyWaiting, notifyHist>>
    /\ UNCHANGED NotifyFrame

\* history of the Semaphore's count: the count a run of consecutive posts
\* started from and the posts of the run; a take ends the run
SemPosted == [semRun EXCEPT !.posts = IF @ > UBaseType_MAX THEN @ ELSE @ + 1]

SemTook(count) == [base |-> count, posts |-> 0]

\* mutant: a give always adds one
SemGivenUnbounded(count) == count + 1

\* xSemaphoreGive / xSemaphoreGiveFromISR: the count after a give; a give
\* at the maximum fails and leaves the count
SemGiven(count) == IF count < SemMax THEN count + 1 ELSE count

\* lines 448-451: xSemaphoreGive(handle)
SemPost ==
    /\ TaskContextRuns
    /\ semCount' = SemGiven(semCount)
    /\ semRun' = SemPosted
    /\ UNCHANGED <<sem_woken, semBinary, semWaiting, semTimed, isr>>
    /\ UNCHANGED SemFrame

\* lines 422-425: xSemaphoreTake(handle, portMAX_DELAY)
SemWait ==
    /\ TaskContextRuns
    /\ ~semWaiting
    /\ IF semCount > 0
       THEN /\ semCount' = semCount - 1
            /\ semRun' = SemTook(semCount - 1)
            /\ UNCHANGED semWaiting
       ELSE /\ semWaiting' = TRUE
            /\ UNCHANGED <<semCount, semRun>>
    /\ semTimed' = FALSE
    /\ UNCHANGED <<sem_woken, semBinary, isr>>
    /\ UNCHANGED SemFrame

\* lines 427-432: xSemaphoreTake(handle, ticks) == pdTRUE
SemWaitTimed ==
    /\ TaskContextRuns
    /\ ~semWaiting
    /\ IF semCount > 0
       THEN /\ semCount' = semCount - 1
            /\ semRun' = SemTook(semCount - 1)
            /\ UNCHANGED <<semWaiting, semTimed>>
       ELSE /\ semWaiting' = TRUE
            /\ semTimed' = TRUE
            /\ UNCHANGED <<semCount, semRun>>
    /\ UNCHANGED <<sem_woken, semBinary, isr>>
    /\ UNCHANGED SemFrame

\* the blocked xSemaphoreTake finds the count non-zero and returns
SemWaitResume ==
    /\ TaskContextRuns
    /\ semWaiting
    /\ semCount > 0
    /\ semCount' = semCount - 1
    /\ semRun' = SemTook(semCount - 1)
    /\ semWaiting' = FALSE
    /\ semTimed' = FALSE
    /\ UNCHANGED <<sem_woken, semBinary, isr>>
    /\ UNCHANGED SemFrame

\* lines 427-432: the ticks of the timed take ran out with the count at zero
SemWaitTimeout ==
    /\ TaskContextRuns
    /\ semWaiting
    /\ semTimed
    /\ semCount = 0
    /\ semWaiting' = FALSE
    /\ semTimed' = FALSE
    /\ UNCHANGED <<sem_woken, semBinary, semCount, semRun, isr>>
    /\ UNCHANGED SemFrame

\* lines 453-456
SemPreparePostFromInterrupt ==
    /\ isr.in
    /\ isr.open = "none"
    /\ sem_woken' = Prepared(sem_woken)
    /\ isr' = OpenBatch("sem")
    /\ UNCHANGED <<semBinary, semCount, semWaiting, semHist>>
    /\ UNCHANGED SemFrame

\* lines 458-461: xSemaphoreGiveFromISR gives unless the count is at its
\* maximum
SemPostFromInterrupt(outranks) ==
    /\ isr.open = "sem"
    /\ semCount' = SemGiven(semCount)
    /\ semRun' = SemPosted
    /\ IF semCount < SemMax
       THEN /\ sem_woken' = Reported(sem_woken, semWaiting /\ outranks)
            /\ isr' = CallInBatch(semWaiting /\ outranks, FALSE, TRUE)
       ELSE /\ isr' = CallInBatch(FALSE, TRUE, FALSE)
            /\ UNCHANGED sem_woken
    /\ UNCHANGED <<semBinary, semWaiting, semTimed>>
    /\ UNCHANGED SemFrame

\* lines 463-468
SemFinalizePostFromInterrupt ==
    /\ isr.open = "sem"
    /\ isr' = CloseBatch(FinalizeYields(sem_woken))
    /\ UNCHANGED <<sem_woken, semBinary, semCount, semWaiting, semHist>>
    /\ UNCHANGED SemFrame

SignalIsrStep ==
    \/ TaskPreparePostFromInterrupt
    \/ \E outranks \in BOOLEAN : TaskPostFromInterrupt(outranks)
    \/ TaskFinalizePostFromInterrupt
    \/ SemPreparePostFromInterrupt
    \/ \E outranks \in BOOLEAN : SemPostFromInterrupt(outranks)
    \/ SemFinalizePostFromInterrupt

SignalTaskStep ==
    \/ TaskPost
    \/ TaskWait
    \/ TaskWaitTimed
    \/ TaskWaitResume
    \/ TaskWaitTimeout
    \/ SemPost
    \/ SemWait
    \/ SemWaitTimed
    \/ SemWaitResume
    \/ SemWaitTimeout

(***************************************************************************)
(* Mutex: each contending task runs lock(); read the guarded data; write   *)
(* it back one higher; unlock().                                           *)
(***************************************************************************)
Lockers == 1 .. MaxLockers

MutexAtRest ==
    /\ mutexHolder = 0
    /\ lockPc = [t \in Lockers |-> "out"]
    /\ guarded = 0
    /\ lockLocal = [t \in Lockers |-> 0]

\* lines 352-361: xSemaphoreCreateMutex leaves the mutex free
MutexInit == MutexAtRest

\* mutant: the take does not look at the holder
MutexFreeAlways == TRUE

\* lines 373: xSemaphoreTake succeeds when no task holds the mutex
MutexFree == mutexHolder = 0

MutexFrame == <<taskVars, queueVars, signalVars, notifyHist, semHist, restVars>>

\* lines 371-374: xSemaphoreTake(handle, portMAX_DELAY)
Lock(t) ==
    /\ lockPc[t] = "out"
    /\ guarded < MaxGuarded
    /\ IF MutexFree
       THEN /\ mutexHolder' = t
            /\ lockPc' = [lockPc EXCEPT ![t] = "read"]
       ELSE /\ lockPc' = [lockPc EXCEPT ![t] = "waiting"]
            /\ UNCHANGED mutexHolder
    /\ UNCHANGED <<guarded, lockLocal>>
    /\ UNCHANGED MutexFrame

\* the blocked xSemaphoreTake finds the mutex free and returns
LockResume(t) ==
    /\ lockPc[t] = "waiting"
    /\ MutexFree
    /\ mutexHolder' = t
    /\ lockPc' = [lockPc EXCEPT ![t] = "read"]
    /\ UNCHANGED <<guarded, lockLocal>>
    /\ UNCHANGED MutexFrame

\* inside the critical section: the guarded data is read ...
SectionRead(t) ==
    /\ lockPc[t] = "read"
    /\ lockLocal' = [lockLocal EXCEPT ![t] = guarded]
    /\ lockPc' = [lockPc EXCEPT ![t] = "write"]
    /\ UNCHANGED <<mutexHolder, guarded>>
    /\ UNCHANGED MutexFrame

\* ... and written back one higher
SectionWrite(t) ==
    /\ lockPc[t] = "write"
    /\ guarded' = lockLocal[t] + 1
    /\ lockPc' = [lockPc EXCEPT ![t] = "unlock"]
    /\ UNCHANGED <<mutexHolder, lockLocal>>
    /\ UNCHANGED MutexFrame

\* lines 376-379: xSemaphoreGive(handle) by the holder
Unlock(t) ==
    /\ lockPc[t] = "unlock"
    /\ mutexHolder' = 0
    /\ lockPc' = [lockPc EXCEPT ![t] = "out"]
    /\ UNCHANGED <<guarded, lockLocal>>
    /\ UNCHANGED MutexFrame

MutexStep(t) ==
    \/ Lock(t)
    \/ LockResume(t)
    \/ SectionRead(t)
    \/ SectionWrite(t)
    \/ Unlock(t)

QueueTaskStep(t) ==
    \/ \E item \in Items : Push(t, item)
    \/ \E item \in Items, msecs \in MsecsArgs : PushTimed(t, item, msecs)
    \/ PushResume(t)
    \/ PushTimeout(t)
    \/ Pop(t)
    \/ \E msecs \in MsecsArgs : PopTimed(t, msecs)
    \/ PopResume(t)
    \/ PopTimeout(t)

QueueIsrStep ==
    \/ IsrEnter
    \/ IsrExit
    \/ PreparePushFromInterrupt
    \/ \E item \in Items, outranks \in BOOLEAN : PushFromInterrupt(item, outranks)
    \/ FinalizePushFromInterrupt
    \/ PreparePopFromInterrupt
    \/ \E outranks \in BOOLEAN : PopFromInterrupt(outranks)
    \/ FinalizePopFromInterrupt

\* the state of the Task model while the Channel is looked at, and back
TaskAtRest ==
    /\ staticAlloc = FALSE
    /\ running = FALSE
    /\ do_stop = FALSE
    /\ handle = nullptr
    /\ ktask = [i \in TaskIds |-> NoTask]
    /\ halted = FALSE
    /\ callerPrio = 0
    /\ cpc = "idle"
    /\ cret = nullptr
    /\ stopEntry = "none"
    /\ stopRet = "none"
    /\ stopJoined = FALSE
    /\ overlapped = FALSE

QueueUnused ==
    /\ capacity = ITEMS
    /\ queue = <<>>
    /\ ctx = [t \in QTasks |-> IdleCtx]
    /\ obs = NoCall
    /\ higher_priority_task_woken_from_push = 0
    /\ higher_priority_task_woken_from_pop = 0
    /\ isr = NoHandler
    /\ pushedLog = <<>>
    /\ poppedLog = <<>>

QueueAtRest ==
    /\ portTICK_PERIOD_MS = 1
    /\ QueueUnused

NoSeries == [kind |-> "none", P |-> 0, n |-> 0, ticks |-> 0, wrapped |-> FALSE]

NoTimed == [kind |-> "none", msecs |-> 0, old |-> 0, ok |-> FALSE, ticks |-> 0,
            delays |-> 0, yields |-> 0]

TimedAtRest ==
    /\ remainder = 0
    /\ ser = NoSeries
    /\ lastTimed = NoTimed

ScenarioAtRest ==
    /\ scProd = [pc |-> "entry", prio |-> 0, next |-> 0]
    /\ scCons = [pc |-> "pop", prio |-> 0, iter |-> 0, ticks |-> 0]
    /\ scChan = <<>>
    /\ scSignal = 0
    /\ scPopped = <<>>
    /\ scTimedOut = FALSE
    /\ scSkipped = FALSE

OthersAtRest == MutexAtRest /\ TimedAtRest /\ ScenarioAtRest

QueueSpecInit == QueueInit /\ TaskAtRest /\ SignalAtRest /\ SyncAtRest /\ OthersAtRest

QueueNext ==
    \/ \E t \in QTasks : QueueTaskStep(t)
    \/ Tick
    \/ QueueIsrStep

QueueSpec == QueueSpecInit /\ [][QueueNext]_vars

\* The interrupt protocol of all four flags, with the blocking calls that
\* give the kernel a task to wake.
IsrSpecInit ==
    /\ QueueInit
    /\ portTICK_PERIOD_MS = 1
    /\ SignalInit
    /\ TaskAtRest
    /\ SyncAtRest
    /\ OthersAtRest

BlockingStep(t) ==
    \/ Push(t, 0)
    \/ PushResume(t)
    \/ Pop(t)
    \/ PopResume(t)

IsrNext ==
    \/ BlockingStep(2)
    \/ TaskWait
    \/ TaskWaitResume
    \/ SemWait
    \/ SemWaitResume
    \/ IsrEnter
    \/ IsrExit
    \/ PreparePushFromInterrupt
    \/ \E outranks \in BOOLEAN : PushFromInterrupt(0, outranks)
    \/ FinalizePushFromInterrupt
    \/ PreparePopFromInterrupt
    \/ \E outranks \in BOOLEAN : PopFromInterrupt(outranks)
    \/ FinalizePopFromInterrupt
    \/ SignalIsrStep

IsrSpec == IsrSpecInit /\ [][IsrNext]_vars

\* The unit's notification and the Semaphore, used from tasks and from an
\* interrupt handler; the unit is started and its task is inside run().
SyncSpecInit ==
    /\ QueueAtRest
    /\ SignalInit
    /\ TaskAtRest
    /\ SyncAtRest
    /\ OthersAtRest

SyncNext ==
    \/ SignalTaskStep
    \/ IsrEnter
    \/ IsrExit
    \/ SignalIsrStep

SyncSpec == SyncSpecInit /\ [][SyncNext]_vars

\* Tasks contending for one Mutex.
MutexSpecInit ==
    /\ QueueAtRest
    /\ SignalAtRest
    /\ TaskAtRest
    /\ SyncAtRest
    /\ MutexInit
    /\ TimedAtRest
    /\ ScenarioAtRest

MutexNext == \E t \in Lockers : MutexStep(t)

MutexSpec == MutexSpecInit /\ [][MutexNext]_vars

(***************************************************************************)
(* Task::msleep and the remainder-tracking forms of the timed calls.  The  *)
(* kernel decides whether a timed wait/push/pop succeeds; here either      *)
(* outcome may be returned.  TickType_t is as wide as unsigned int.        *)
(***************************************************************************)
UInts == 0 .. UINT_MAX

\* lines 167, 267, 310, 436: msecs += remainder, in unsigned int
AddUInt(a, b) == (a + b) % (UINT_MAX + 1)

\* mutant: every sleep is handed to the kernel, zero ticks or not
SleepAlwaysDelays(ticks) == [delays |-> 1, yields |-> 0]

\* lines 158-162, 171-175: if (ticks) vTaskDelay(ticks); else yield();
SleepFor(ticks) ==
    IF ticks # 0 THEN [delays |-> 1, yields |-> 0]
                 ELSE [delays |-> 0, yields |-> 1]

\* mutant: a successful call keeps the remainder it computed
RemainderKept(ok, rem) == rem

\* lines 271-273, 314-316, 196-199, 440-443: remainder = 0 on success
RemainderAfter(ok, rem) == IF ok THEN 0 ELSE rem

\* history of the series of successive calls of one kind with one period P
\* that all timed out (msleep always counts as timed out), begun with a
\* remainder of 0
Series(kind, msecs, ok, ticks) ==
    IF ok THEN NoSeries
    ELSE IF ser.kind = kind /\ ser.P = msecs /\ ser.n >= 1
    THEN [ser EXCEPT !.n = @ + 1, !.ticks = @ + ticks,
                     !.wrapped = @ \/ (msecs + remainder > UINT_MAX)]
    ELSE IF remainder = 0
    THEN [kind |-> kind, P |-> msecs, n |-> 1, ticks |-> ticks, wrapped |-> FALSE]
    ELSE NoSeries

SeriesGoesOn(kind, msecs) ==
    (ser.kind = kind /\ ser.P = msecs) => ser.n < MaxCalls

TimedFrame == <<taskVars, queueVars, signalVars, notifyHist, semHist, mutexVars,
                scenarioVars>>

\* lines 154-163
Msleep(msecs) ==
    /\ LET ticks == ToTicks(msecs)
       IN  lastTimed' = [kind |-> "msleep_plain", msecs |-> msecs, old |-> 0,
                         ok |-> FALSE, ticks |-> ticks,
                         delays |-> SleepFor(ticks).delays,
                         yields |-> SleepFor(ticks).yields]
    /\ UNCHANGED <<remainder, ser>>
    /\ UNCHANGED TimedFrame

\* lines 165-176
MsleepRemainder(msecs) ==
    /\ SeriesGoesOn("msleep", msecs)
    /\ LET sum == AddUInt(msecs, remainder)
           ticks == ToTicks(sum)
       IN  /\ remainder' = sum % portTICK_PERIOD_MS
           /\ lastTimed' = [kind |-> "msleep", msecs |-> msecs, old |-> remainder,
                            ok |-> FALSE, ticks |-> ticks,
                            delays |-> SleepFor(ticks).delays,
                            yields |-> SleepFor(ticks).yields]
           /\ ser' = Series("msleep", msecs, FALSE, ticks)
    /\ UNCHANGED TimedFrame

\* the shape shared by the four remainder-tracking waits: the sum, the
\* ticks handed to the kernel, the remainder kept, cleared on success
RemainderCall(kind, msecs, ok) ==
    /\ SeriesGoesOn(kind, msecs)
    /\ LET sum == AddUInt(msecs, remainder)
           ticks == ToTicks(sum)
       IN  /\ remainder' = RemainderAfter(ok, sum % portTICK_PERIOD_MS)
           /\ lastTimed' = [kind |-> kind, msecs |-> msecs, old |-> remainder,
                            ok |-> ok, ticks |-> ticks, delays |-> 0, yields |-> 0]
           /\ ser' = Series(kind, msecs, ok, ticks)
    /\ UNCHANGED TimedFrame

\* lines 190-202
TaskWaitRemainder(msecs, ok) == RemainderCall("wait", msecs, ok)

\* lines 265-277
PushRemainder(msecs, ok) == RemainderCall("push", msecs, ok)

\* lines 308-320
PopRemainder(msecs, ok) == RemainderCall("pop", msecs, ok)

\* lines 434-446
SemWaitRemainder(msecs, ok) == RemainderCall("sem_wait", msecs, ok)

TimedSpecInit ==
    /\ portTICK_PERIOD_MS \in 1 .. MaxTickPeriod
    /\ QueueUnused
    /\ SignalAtRest
    /\ TaskAtRest
    /\ SyncAtRest
    /\ OthersAtRest

TimedNext ==
    \/ \E msecs \in UInts : Msleep(msecs)
    \/ \E msecs \in UInts : MsleepRemainder(msecs)
    \/ \E msecs \in UInts, ok \in BOOLEAN : TaskWaitRemainder(msecs, ok)
    \/ \E msecs \in UInts, ok \in BOOLEAN : PushRemainder(msecs, ok)
    \/ \E msecs \in UInts, ok \in BOOLEAN : PopRemainder(msecs, ok)
    \/ \E msecs \in UInts, ok \in BOOLEAN : SemWaitRemainder(msecs, ok)

TimedSpec == TimedSpecInit /\ [][TimedNext]_vars

(***************************************************************************)
(* End-to-end scenario.  The unit's task runs entryPoint, whose run()       *)
(* pushes the next counter value with the blocking push, waits on the      *)
(* Semaphore and returns true; no stop() is called.  The consumer task     *)
(* does ScPops times: timed pop with ScMsecs, then post.  The two tasks    *)
(* have any priorities; the one of higher priority runs when both are      *)
(* ready, either one when the priorities are equal.  Time passes only      *)
(* while no task is ready: the tasks' own steps take no ticks.  The        *)
(* consumer may leave out a post, which is the case where its pops time    *)
(* out.                                                                    *)
(***************************************************************************)
ScenarioInit ==
    /\ \E pp \in Priorities, cp \in Priorities :
          /\ scProd = [pc |-> "entry", prio |-> pp, next |-> 0]
          /\ scCons = [pc |-> "pop", prio |-> cp, iter |-> 0, ticks |-> 0]
    /\ scChan = <<>>
    /\ scSignal = 0
    /\ scPopped = <<>>
    /\ scTimedOut = FALSE
    /\ scSkipped = FALSE

\* the unit's task is not blocked in xQueueSend or xSemaphoreTake
ScProdReady ==
    \/ scProd.pc = "entry"
    \/ scProd.pc = "push" /\ Len(scChan) < ScCapacity
    \/ scProd.pc = "wait" /\ scSignal > 0

\* the consumer is not blocked in xQueueReceive
ScConsReady ==
    \/ scCons.pc \in {"pop", "post"}
    \/ scCons.pc = "pop_blocked" /\ (scChan # <<>> \/ scCons.ticks = 0)

ScProdMayRun == ScProdReady /\ (ScConsReady => scProd.prio >= scCons.prio)

ScConsMayRun == ScConsReady /\ (ScProdReady => scCons.prio >= scProd.prio)

\* mutant: the give is lost
ScGivenLost(count) == count

\* lines 448-451: xSemaphoreGive(handle)
ScGiven(count) == SemGiven(count)

ScenarioFrame == <<taskVars, queueVars, signalVars, notifyHist, semHist, mutexVars,
                   timedVars>>

\* lines 209-210: running = true and the first call of run()
ScEntry ==
    /\ ScProdMayRun
    /\ scProd.pc = "entry"
    /\ scProd' = [scProd EXCEPT !.pc = "push"]
    /\ UNCHANGED <<scCons, scChan, scSignal, scPopped, scTimedOut, scSkipped>>
    /\ UNCHANGED ScenarioFrame

\* run(): push(next++), lines 253-256; blocked while the Channel is full
ScPush ==
    /\ ScProdMayRun
    /\ scProd.pc = "push"
    /\ scChan' = Enqueue(scChan, scProd.next)
    /\ scProd' = [scProd EXCEPT !.pc = "wait", !.next = @ + 1]
    /\ UNCHANGED <<scCons, scSignal, scPopped, scTimedOut, scSkipped>>
    /\ UNCHANGED ScenarioFrame

\* run(): wait(), lines 422-425, blocked while the count is 0; return true,
\* and line 210 calls run() again
ScWait ==
    /\ ScProdMayRun
    /\ scProd.pc = "wait"
    /\ scSignal' = scSignal - 1
    /\ scProd' = [scProd EXCEPT !.pc = "push"]
    /\ UNCHANGED <<scCons, scChan, scPopped, scTimedOut, scSkipped>>
    /\ UNCHANGED ScenarioFrame

\* consumer: pop(ScMsecs, item), lines 301-306
ScPop ==
    /\ ScConsMayRun
    /\ scCons.pc = "pop"
    /\ IF scChan # <<>>
       THEN /\ scPopped' = Append(scPopped, Front(scChan))
            /\ scChan' = Dequeue(scChan)
            /\ scCons' = [scCons EXCEPT !.pc = "post"]
            /\ UNCHANGED scTimedOut
       ELSE IF ToTicks(ScMsecs) = 0
       THEN /\ scTimedOut' = TRUE
            /\ scCons' = [scCons EXCEPT !.pc = "post"]
            /\ UNCHANGED <<scChan, scPopped>>
       ELSE /\ scCons' = [scCons EXCEPT !.pc = "pop_blocked", !.ticks = ToTicks(ScMsecs)]
            /\ UNCHANGED <<scChan, scPopped, scTimedOut>>
    /\ UNCHANGED <<scProd, scSignal, scSkipped>>
    /\ UNCHANGED ScenarioFrame

\* xQueueReceive (line 305): the blocked consumer finds an item
ScPopResume ==
    /\ ScConsMayRun
    /\ scCons.pc = "pop_blocked"
    /\ scChan # <<>>
    /\ scPopped' = Append(scPopped, Front(scChan))
    /\ scChan' = Dequeue(scChan)
    /\ scCons' = [scCons EXCEPT !.pc = "post", !.ticks = 0]
    /\ UNCHANGED <<scProd, scSignal, scTimedOut, scSkipped>>
    /\ UNCHANGED ScenarioFrame

\* xQueueReceive (line 305): the ticks are over and the Channel is empty
ScPopTimeout ==
    /\ ScConsMayRun
    /\ scCons.pc = "pop_blocked"
    /\ scChan = <<>>
    /\ scCons.ticks = 0
    /\ scTimedOut' = TRUE
    /\ scCons' = [scCons EXCEPT !.pc = "post"]
    /\ UNCHANGED <<scProd, scChan, scSignal, scPopped, scSkipped>>
    /\ UNCHANGED ScenarioFrame

\* a kernel tick while both tasks are blocked
ScTick ==
    /\ ~ScProdReady
    /\ ~ScConsReady
    /\ scCons.pc = "pop_blocked"
    /\ scCons.ticks > 0
    /\ scCons' = [scCons EXCEPT !.ticks = @ - 1]
    /\ UNCHANGED <<scProd, scChan, scSignal, scPopped, scTimedOut, scSkipped>>
    /\ UNCHANGED ScenarioFrame

\* consumer: the end of one of its ScPops rounds
ScRoundDone == [scCons EXCEPT !.iter = @ + 1,
                              !.pc = IF scCons.iter + 1 >= ScPops THEN "done" ELSE "pop"]

\* consumer: post(), lines 448-451
ScPost ==
    /\ ScConsMayRun
    /\ scCons.pc = "post"
    /\ scSignal' = ScGiven(scSignal)
    /\ scCons' = ScRoundDone
    /\ UNCHANGED <<scProd, scChan, scPopped, scTimedOut, scSkipped>>
    /\ UNCHANGED ScenarioFrame

\* consumer: a round in which post() is left out
ScSkipPost ==
    /\ ScConsMayRun
    /\ scCons.pc = "post"
    /\ scSkipped' = TRUE
    /\ scCons' = ScRoundDone
    /\ UNCHANGED <<scProd, scChan, scSignal, scPopped, scTimedOut>>
    /\ UNCHANGED ScenarioFrame

ScenarioSpecInit ==
    /\ portTICK_PERIOD_MS \in 1 .. MaxTickPeriod
    /\ QueueUnused
    /\ SignalInit
    /\ TaskAtRest
    /\ SyncAtRest
    /\ MutexAtRest
    /\ TimedAtRest
    /\ ScenarioInit

ScenarioNext ==
    \/ ScEntry
    \/ ScPush
    \/ ScWait
    \/ ScPop
    \/ ScPopResume
    \/ ScPopTimeout
    \/ ScTick
    \/ ScPost
    \/ ScSkipPost

ScenarioSpec == ScenarioSpecInit /\ [][ScenarioNext]_vars

Init == TaskInit /\ QueueAtRest /\ SignalAtRest /\ SyncAtRest /\ OthersAtRest

Next ==
    \/ CallerStep
    \/ \E i \in TaskIds : TaskStep(i)

Spec == Init /\ [][Next]_vars

\* The scheduler's guarantee: a context that is allowed to execute again and
\* again (no ready context of higher priority stands in its way) does execute.
\* A context the priorities keep from the processor is promised nothing.
FairSpec ==
    /\ Spec
    /\ SF_vars(CallerStep)
    /\ \A i \in TaskIds : SF_vars(TaskStep(i))

(***************************************************************************)
(* Task lifecycle claims                                                   *)
(***************************************************************************)
InStop == cpc \in {"stop_set", "stop_poll"}

\* C1: once a stop() has returned true, and until start() is called again,
\* running is false and no invocation of run() is in progress.
C1_StopJoinsRunLoop ==
    stopJoined => (~running /\ \A i \in TaskIds : ktask[i].pc # "in_run")

\* C2: once a stop() has returned true, and until start() is called again,
\* the unit's task has deleted itself: no kernel task of the unit is left to
\* touch running, do_stop or handle.
C2_StopJoinsSelfDelete ==
    stopJoined => LiveTasks = {}

\* C3: outside the body of start() and the exit sequence of entryPoint,
\* handle is non-null exactly when the unit has a kernel task; and handle
\* goes from non-null to null only by the unit's own task, at the statement
\* right before its vTaskDelete.
OutsideBodies ==
    /\ cpc # "start_assign"
    /\ \A i \in TaskIds : ktask[i].pc \notin {"copy_handle", "null_handle", "delete"}

C3_HandleIffTask ==
    /\ []((OutsideBodies /\ ~overlapped) => ((handle # nullptr) <=> (LiveTasks # {})))
    /\ [][(handle # nullptr /\ handle' = nullptr) =>
            \E i \in TaskIds : /\ ktask[i].pc = "null_handle"
                               /\ ktask'[i].pc = "delete"]_vars

\* C4: the instance never has more than one kernel task bound to it.
C4_AtMostOneTask ==
    Cardinality(LiveTasks) <= 1

\* C5: under priority scheduling, a stop() in progress on a unit with one
\* started task eventually returns.
StopOnStartedUnit ==
    /\ InStop
    /\ ~overlapped
    /\ LiveTasks # {}

C5_StopReturns ==
    StopOnStartedUnit ~> (cpc = "idle")

\* A stop() in progress does return when no task of the unit is outranked by
\* the caller and start() calls never overlapped.
StopReturnsUnlessOutranked ==
    (StopOnStartedUnit /\ \A i \in LiveTasks : ktask[i].prio >= callerPrio) ~> (cpc = "idle")

\* C6: a stop() called while the unit has no kernel task (never started, or
\* stopped and self-deleted) returns false at once.
C6_StopIdleReturnsFalse ==
    stopEntry = "idle" => stopRet = "false"
(***************************************************************************)
(* Channel claims (QueueSpec)                                              *)
(***************************************************************************)
IsPrefix(a, b) ==
    /\ Len(a) <= Len(b)
    /\ \A k \in 1 .. Len(a) : a[k] = b[k]

\* C7: the values successful pops return are, in order, a prefix of the
\* values successful pushes were given, whichever task or interrupt handler
\* pushed and popped.
C7_FifoDelivery == IsPrefix(poppedLog, pushedLog)

\* two different values went through the Channel and came out in push order
C7_Witness ==
    /\ Len(poppedLog) >= 2
    /\ poppedLog[1] # poppedLog[2]
    /\ isr.ev = "call"

\* C8 as claimed: a push that found the Channel full (a pop that found it
\* empty) fails if no pop (push) took effect during its wait and succeeds if
\* one did; a failing call leaves the contents alone; the interrupt forms
\* fail at once on a full (empty) Channel.
C8_TimedOutcome ==
    /\ (obs.waited /\ obs.ret = "true") => obs.sawOpp
    /\ (obs.waited /\ obs.ret = "false") => ~obs.sawOpp
    /\ (isr.ev = "call" /\ isr.cond) => isr.out = 0

\* C8 amended: a push that found the Channel full (a pop that found it
\* empty) succeeds only if a pop (push) took effect during its wait, and
\* fails only if the Channel is full (empty) when its wait ends; the failing
\* call leaves the contents alone; the interrupt forms fail at once on a
\* full (empty) Channel.
C8_TimedOutcomeAmended ==
    /\ []((obs.waited /\ obs.ret = "true") => obs.sawOpp)
    /\ []((obs.waited /\ obs.ret = "false") => obs.endBlocked)
    /\ []((isr.ev = "call" /\ isr.cond) => isr.out = 0)
    /\ [][(obs' # obs /\ obs'.ret = "false") => queue' = queue]_vars
    /\ [][(isr'.ev = "call" /\ isr'.cond /\ isr' # isr) => queue' = queue]_vars

\* a timed push waited, a pop took effect meanwhile, and the push still
\* timed out on a Channel that was full again
C8_Witness ==
    /\ obs.last = "push"
    /\ obs.ret = "false"
    /\ obs.sawOpp
    /\ obs.endBlocked

\* C9: the Channel never holds more than ITEMS items, and its capacity stays
\* the ITEMS it was built with.
C9_WithinCapacity ==
    /\ Len(queue) \in 0 .. ITEMS
    /\ capacity = ITEMS

\* the Channel is full and a push is held back
C9_Witness ==
    /\ Len(queue) = ITEMS
    /\ \E t \in QTasks : ctx[t].op = "push"

(***************************************************************************)
(* Interrupt protocol claim (IsrSpec)                                      *)
(***************************************************************************)
\* C10: a finalize requests exactly one context switch when a call of its
\* batch reported a woken higher-priority task, and none otherwise.
C10_OneYieldIffWoken ==
    isr.ev = "finalize" => isr.out = (IF isr.cond THEN 1 ELSE 0)

\* a batch in which a call woke a task has just been finalized
C10_Witness ==
    /\ isr.ev = "finalize"
    /\ isr.cond
    /\ isr.out = 1
(***************************************************************************)
(* Signal, Lock and notification claims (SyncSpec, MutexSpec)              *)
(***************************************************************************)
Min(a, b) == IF a < b THEN a ELSE b

\* C11: a run of n consecutive posts (from tasks or an interrupt handler)
\* that starts at count c leaves the count at min(c + n, max), where max is 1
\* for a binary Signal and the largest UBaseType_t for a counting one: a
\* binary Signal's count stays in {0, 1} and is 1 after any post, a counting
\* one's is min(n, max) after n posts from 0.  Each wait then takes exactly
\* one, and a wait blocks only when the count is 0.
C11_SignalCount ==
    /\ [](semCount = Min(semRun.base + semRun.posts, SemMax))
    /\ [](semBinary => (semCount \in {0, 1} /\ (semRun.posts >= 1 => semCount = 1)))
    /\ []((~semBinary /\ semRun.base = 0) => semCount = Min(semRun.posts, UBaseType_MAX))
    /\ [][(~semWaiting /\ semWaiting') => semCount = 0]_vars
    /\ [][semCount' < semCount => semCount' = semCount - 1]_vars

\* a counting Signal was posted more often than its count can hold
C11_Witness ==
    /\ ~semBinary
    /\ semRun.base = 0
    /\ semRun.posts > UBaseType_MAX
    /\ semCount = UBaseType_MAX

\* C12: at most one contending task is between its returned lock() and its
\* unlock(), that task is the kernel mutex's holder, and the data it read in
\* the section is unchanged when it writes.
InSection(t) == lockPc[t] \in {"read", "write", "unlock"}

C12_MutualExclusion ==
    /\ Cardinality({t \in Lockers : InSection(t)}) <= 1
    /\ \A t \in Lockers : InSection(t) => mutexHolder = t
    /\ \A t \in Lockers : lockPc[t] = "write" => lockLocal[t] = guarded

\* one task is inside the section while two others wait in lock()
C12_Witness ==
    \E t \in Lockers :
        /\ lockPc[t] = "write"
        /\ Cardinality({u \in Lockers : lockPc[u] = "waiting"}) >= 2

\* C15: the unit's notification count is the number of posts (from tasks or
\* an interrupt handler) minus the number of waits that returned true; a wait
\* takes exactly one, blocks only when the count is 0, and a timed wait gives
\* up only when the count is 0.
C15_NotificationCounts ==
    /\ [](notifyValue = notifyOwed)
    /\ [][(~notifyWaiting /\ notifyWaiting') => notifyValue = 0]_vars
    /\ [][notifyValue' < notifyValue =>
            (notifyValue' = notifyValue - 1 /\ ~notifyWaiting')]_vars
    /\ [][(notifyWaiting /\ ~notifyWaiting' /\ notifyValue' = notifyValue) =>
            notifyValue = 0]_vars

\* posts made before the unit waits are pending, none lost
C15_Witness ==
    /\ notifyValue = MaxNotify
    /\ notifyOwed = MaxNotify
    /\ ~notifyWaiting
    /\ isr.ev = "call"
(***************************************************************************)
(* msleep and remainder claims (TimedSpec)                                 *)
(***************************************************************************)
Abs(x) == IF x < 0 THEN 0 - x ELSE x

\* C13: after N successive remainder-tracking calls of one kind with the same
\* period P that all timed out, begun with remainder 0, the delay requested
\* from the kernel (the ticks summed, times the tick period) differs from
\* N x P by less than one tick period.
C13_DriftBounded ==
    ser.n >= 1 =>
        Abs(ser.ticks * portTICK_PERIOD_MS - ser.n * ser.P) < portTICK_PERIOD_MS

\* The drift is bounded as long as no sum msecs + remainder went beyond the
\* largest unsigned int.
DriftBoundedWithoutWrap ==
    (ser.n >= 1 /\ ~ser.wrapped) =>
        Abs(ser.ticks * portTICK_PERIOD_MS - ser.n * ser.P) < portTICK_PERIOD_MS

\* C17: a msleep whose msecs (with the remainder form: msecs + remainder, as
\* unsigned int) is less than the tick period yields once and asks the kernel
\* for no delay; any other asks for one delay of that many whole tick periods
\* and does not yield.
C17_SleepYieldsOrDelays ==
    lastTimed.kind \in {"msleep_plain", "msleep"} =>
        LET m == (lastTimed.msecs + lastTimed.old) % (UINT_MAX + 1)
        IN  IF m < portTICK_PERIOD_MS
            THEN lastTimed.yields = 1 /\ lastTimed.delays = 0
            ELSE /\ lastTimed.delays = 1
                 /\ lastTimed.yields = 0
                 /\ lastTimed.ticks = m \div portTICK_PERIOD_MS

\* a msleep of less than a tick that the remainder carried over the tick
C17_Witness ==
    /\ lastTimed.kind = "msleep"
    /\ lastTimed.msecs < portTICK_PERIOD_MS
    /\ lastTimed.old > 0
    /\ lastTimed.delays = 1
    /\ lastTimed.ticks = 1

\* C20: the caller's remainder is always less than the tick period; after a
\* remainder-tracking wait/push/pop that succeeded it is 0; after one that
\* timed out, and after msleep, it is (msecs + old remainder), as unsigned
\* int, modulo the tick period.
C20_RemainderInvariant ==
    /\ remainder < portTICK_PERIOD_MS
    /\ lastTimed.kind \in {"msleep", "wait", "push", "pop", "sem_wait"} =>
           remainder = IF lastTimed.kind # "msleep" /\ lastTimed.ok
                       THEN 0
                       ELSE ((lastTimed.msecs + lastTimed.old) % (UINT_MAX + 1))
                                % portTICK_PERIOD_MS

\* a pop that succeeded cleared a remainder carried in from earlier calls
C20_Witness ==
    /\ lastTimed.kind = "pop"
    /\ lastTimed.ok
    /\ lastTimed.old > 0
    /\ (lastTimed.msecs + lastTimed.old) % portTICK_PERIOD_MS # 0
    /\ remainder = 0
(***************************************************************************)
(* Flag and run-loop claims (Spec)                                         *)
(***************************************************************************)
TaskMoves(from, to) ==
    \E i \in TaskIds : ktask[i].pc = from /\ ktask'[i].pc = to

StopSets == cpc = "stop_set" /\ cpc' = "stop_poll"

\* C16 as claimed: running changes only in a statement of the unit's own
\* task, and do_stop changes only in stop().
C16_FlagOwnership ==
    [][/\ running' # running =>
            (TaskMoves("entry", "loop") \/ TaskMoves("clear_running", "copy_handle"))
       /\ do_stop' # do_stop => StopSets]_vars

\* C16 amended: running changes only in a statement of the unit's own task
\* (never in start() or stop()); do_stop becomes true only in stop() and
\* becomes false only in the unit's own task, at the exit of its loop.
C16_FlagOwnershipAmended ==
    [][/\ running' # running =>
            (TaskMoves("entry", "loop") \/ TaskMoves("clear_running", "copy_handle"))
       /\ (do_stop' /\ ~do_stop) => StopSets
       /\ (do_stop /\ ~do_stop') => TaskMoves("clear_stop", "clear_running")]_vars

\* the unit's task has just cleared the do_stop that a stop() still in
\* progress had set
C16_Witness ==
    /\ cpc = "stop_poll"
    /\ ~do_stop
    /\ \E i \in TaskIds : ktask[i].pc = "clear_running"

\* C18: when the unit has no kernel task, running is false and no stop() is
\* in progress, do_stop is false.
C18_NoStaleStop ==
    (LiveTasks = {} /\ ~running /\ cpc = "idle") => ~do_stop

\* C19: a task of the unit leaves its loop only after run() was called, and
\* once a stop() has set do_stop while the task is in its loop, the task
\* begins at most one further call of run().
PastLoop(i) ==
    ktask[i].pc \in {"clear_stop", "clear_running", "copy_handle", "null_handle",
                     "delete", "returned"}

C19_StopResponsive ==
    \A i \in TaskIds :
        /\ PastLoop(i) => ktask[i].ran
        /\ ktask[i].late <= 1

\* The run-loop is responsive to stop() as long as start() was never called
\* on a unit that had a task.
StopResponsiveUnlessOverlapped ==
    ~overlapped =>
        \A i \in TaskIds :
            /\ PastLoop(i) => ktask[i].ran
            /\ ktask[i].late <= 1
====
